---------------------------- MODULE Spec2Model ----------------------------
(***************************************************************************)
(* A model of the Blackstar CMS JavaScript client (src/blackstar.js).      *)
(*                                                                         *)
(* JavaScript strings are sequences of one-character strings, so that      *)
(* concatenation, join and the trailing-slash test compute on characters.  *)
(* JavaScript primitive values carry their type, so that === compares type *)
(* and value.                                                              *)
(***************************************************************************)
EXTENDS Integers, Sequences, FiniteSets, TLC

VARIABLES
    client,     \* the Client instance, or NoClient before `new Client(...)`
    document,   \* the global `document` of the environment, or NoDocument
    urlCall,    \* the last direct call of requestKind / requestToUrl
    heap,       \* the array objects: heap[ref] is one array instance
    last,       \* the last call of enrichCollectionWithByMethods / a lookup
    chains      \* the promise chains of the client's requests

vars == <<client, document, urlCall, heap, last, chains>>

-----------------------------------------------------------------------------
(* Bounds of the model.                                                    *)

MaxLen == 2         \* longest ids / names / tags array of a query
MaxChunks == 2      \* longest parsed chunk array
MaxArrays == 2      \* array objects on the heap
MaxCalls == 1       \* operations called on the client

-----------------------------------------------------------------------------
(* JavaScript values.                                                      *)

Num(n) == [t |-> "number", v |-> n]
Str(s) == [t |-> "string", v |-> s]
Undefined == [t |-> "undefined"]
Null == [t |-> "null"]

Return(v) == [t |-> "return", v |-> v]
Throw(e) == [t |-> "throw", v |-> e]

SeqsUpTo(S, n) == UNION {[1..k -> S] : k \in 0..n}

\* Number.prototype.toString for the integers, as Array.prototype.join applies it
Digit(d) == <<"0", "1", "2", "3", "4", "5", "6", "7", "8", "9">>[d + 1]

RECURSIVE DecStr(_)
DecStr(n) ==
    IF n < 0 THEN <<"-">> \o DecStr(-n)
    ELSE IF n < 10 THEN <<Digit(n)>>
    ELSE DecStr(n \div 10) \o <<Digit(n % 10)>>

\* ToString of an array element, as join applies it
ElemToString(e) ==
    CASE e.t = "number" -> DecStr(e.v)
      [] e.t = "string" -> e.v
      [] OTHER -> <<>>      \* join renders undefined and null as ''

\* Array.prototype.join(sep): element 0, then sep and the next element, in index order
RECURSIVE JoinFrom(_, _, _, _)
JoinFrom(arr, sep, k, R) ==
    IF k > Len(arr) THEN R
    ELSE JoinFrom(arr, sep, k + 1, R \o sep \o ElemToString(arr[k]))

\* as join, but an element equal to its predecessor is left out
RECURSIVE JoinUniqueFrom(_, _, _, _)
JoinUniqueFrom(arr, sep, k, R) ==
    IF k > Len(arr) THEN R
    ELSE JoinUniqueFrom(arr, sep, k + 1,
             IF arr[k] = arr[k - 1] THEN R ELSE R \o sep \o ElemToString(arr[k]))

join_Unique(arr, sep) ==
    IF Len(arr) = 0 THEN <<>>
    ELSE JoinUniqueFrom(arr, sep, 2, ElemToString(arr[1]))

join(arr, sep) ==
    IF Len(arr) = 0 THEN <<>>
    ELSE JoinFrom(arr, sep, 2, ElemToString(arr[1]))

-----------------------------------------------------------------------------
(* String literals of the source.                                          *)

SLASH == <<"/">>
API_CONTENT == <<"a", "p", "i", "/", "c", "o", "n", "t", "e", "n", "t", "/">>
BYIDS == <<"b", "y", "i", "d", "s", "/">>
BYNAMES == <<"b", "y", "n", "a", "m", "e", "s", "/">>
BYTAGS == <<"b", "y", "t", "a", "g", "s", "/">>
API_TAGS == <<"a", "p", "i", "/", "t", "a", "g", "s">>

ERR_EXACTLY_ONE ==
    "A request must include exactly one of the following collections: ids, names, tags"
ERR_UNKNOWN_KIND == "Unknown request kind: "

-----------------------------------------------------------------------------
(* requestKind and requestToUrl.  A request object is a function from its  *)
(* own enumerable keys to their values; Object.keys is its DOMAIN.         *)

isRequestKind(request, kind) == \E item \in DOMAIN request : item = kind

isIdsRequest(request) == isRequestKind(request, "ids")
isNamesRequest(request) == isRequestKind(request, "names")
isTagsRequest(request) == isRequestKind(request, "tags")

\* as requestKind, but a request with none of the three keys is classified as
\* a request for everything instead of being refused
requestKind_NoneAsAll(request) ==
    IF isIdsRequest(request) /\ ~isNamesRequest(request) /\ ~isTagsRequest(request)
        THEN Return("ids")
    ELSE IF ~isIdsRequest(request) /\ isNamesRequest(request) /\ ~isTagsRequest(request)
        THEN Return("names")
    ELSE IF ~isIdsRequest(request) /\ ~isNamesRequest(request) /\ isTagsRequest(request)
        THEN Return("tags")
    ELSE IF ~isIdsRequest(request) /\ ~isNamesRequest(request) /\ ~isTagsRequest(request)
        THEN Return("all")
    ELSE Throw(ERR_EXACTLY_ONE)

\* as requestKind, but an ids request is recognised whatever else is present
requestKind_IdsFirst(request) ==
    IF isIdsRequest(request) THEN Return("ids")
    ELSE IF isNamesRequest(request) /\ ~isTagsRequest(request) THEN Return("names")
    ELSE IF ~isNamesRequest(request) /\ isTagsRequest(request) THEN Return("tags")
    ELSE Throw(ERR_EXACTLY_ONE)

requestKind(request) ==
    IF isIdsRequest(request) /\ ~isNamesRequest(request) /\ ~isTagsRequest(request)
        THEN Return("ids")
    ELSE IF ~isIdsRequest(request) /\ isNamesRequest(request) /\ ~isTagsRequest(request)
        THEN Return("names")
    ELSE IF ~isIdsRequest(request) /\ ~isNamesRequest(request) /\ isTagsRequest(request)
        THEN Return("tags")
    ELSE Throw(ERR_EXACTLY_ONE)

\* as requestToUrl, but the separator is put before each element instead of
\* after the mode segment: the same path unless the array is empty
RECURSIVE PrefixEach(_, _, _)
PrefixEach(arr, sep, k) ==
    IF k > Len(arr) THEN <<>>
    ELSE sep \o ElemToString(arr[k]) \o PrefixEach(arr, sep, k + 1)

requestToUrl_SepBeforeEach(this, request) ==
    LET kind == requestKind(request) IN
    IF kind.t = "throw" THEN kind
    ELSE CASE kind.v = "ids" ->
                Return(this.apiUrl \o <<"b", "y", "i", "d", "s">>
                       \o PrefixEach(request["ids"], SLASH, 1))
           [] kind.v = "names" ->
                Return(this.apiUrl \o <<"b", "y", "n", "a", "m", "e", "s">>
                       \o PrefixEach(request["names"], SLASH, 1))
           [] kind.v = "tags" ->
                Return(this.apiUrl \o <<"b", "y", "t", "a", "g", "s">>
                       \o PrefixEach(request["tags"], SLASH, 1))
           [] OTHER -> Throw(ERR_UNKNOWN_KIND)

\* as requestToUrl, but the token of the client, when it has one, is appended
\* to the path as a query string
requestToUrl_WithToken(this, request) ==
    LET kind == requestKind(request)
        suffix == IF this.options.token.t = "string" /\ Len(this.options.token.v) > 0
                  THEN <<"?", "t", "=">> \o this.options.token.v ELSE <<>>
    IN
    IF kind.t = "throw" THEN kind
    ELSE CASE kind.v = "ids" ->
                Return(this.apiUrl \o BYIDS \o join(request["ids"], SLASH) \o suffix)
           [] kind.v = "names" ->
                Return(this.apiUrl \o BYNAMES \o join(request["names"], SLASH) \o suffix)
           [] kind.v = "tags" ->
                Return(this.apiUrl \o BYTAGS \o join(request["tags"], SLASH) \o suffix)
           [] OTHER -> Throw(ERR_UNKNOWN_KIND)

requestToUrl(this, request) ==
    LET kind == requestKind(request) IN
    IF kind.t = "throw" THEN kind
    ELSE CASE kind.v = "ids" -> Return(this.apiUrl \o BYIDS \o join(request["ids"], SLASH))
           [] kind.v = "names" -> Return(this.apiUrl \o BYNAMES \o join(request["names"], SLASH))
           [] kind.v = "tags" -> Return(this.apiUrl \o BYTAGS \o join(request["tags"], SLASH))
           [] OTHER -> Throw(ERR_UNKNOWN_KIND)

-----------------------------------------------------------------------------
(* The constructor.                                                        *)

\* /.+\/$/ : some character other than a line terminator, then '/' at the end
endsWithForwardSlash(input) ==
    /\ Len(input) >= 2
    /\ input[Len(input)] = "/"
    /\ input[Len(input) - 1] /= "\n"

\* a property read: undefined when the object has no such key
Prop(obj, key) == IF key \in DOMAIN obj THEN obj[key] ELSE Undefined

\* ToBoolean of the values the options hold
Truthy(v) ==
    CASE v.t = "undefined" -> FALSE
      [] v.t = "null" -> FALSE
      [] v.t = "boolean" -> v.v
      [] v.t = "string" -> Len(v.v) > 0
      [] OTHER -> TRUE

Bool(b) == [t |-> "boolean", v |-> b]
Fn(name) == [t |-> "function", v |-> name]
NOOP == Fn("noop")          \* function () {}

NoOptions == Undefined      \* `new Client(url)`

Client(url, options) ==
    LET serverUrl == url \o (IF endsWithForwardSlash(url) THEN <<>> ELSE SLASH)
        given == IF options = NoOptions
                 THEN [showEditControls |-> Bool(FALSE), token |-> Null, authCallback |-> NOOP]
                 ELSE options
        showEditControls == IF Truthy(Prop(given, "showEditControls"))
                            THEN Prop(given, "showEditControls") ELSE Bool(FALSE)
        authCallback == IF Truthy(Prop(given, "authCallback"))
                        THEN Prop(given, "authCallback") ELSE NOOP
    IN  [serverUrl |-> serverUrl,
         apiUrl |-> serverUrl \o API_CONTENT,
         options |-> [showEditControls |-> showEditControls,
                      token |-> Prop(given, "token"),
                      authCallback |-> authCallback]]

NoClient == [serverUrl |-> <<>>, apiUrl |-> <<>>, options |-> Undefined]

-----------------------------------------------------------------------------
(* Arrays of chunks and enrichCollectionWithByMethods.  An array is an     *)
(* object on the heap, named by its reference; its three lookup members are *)
(* closures that hold the reference of the array they were made for.       *)

ArrayRef(ref) == [t |-> "array", ref |-> ref]
Closure(name, data) == [t |-> "function", v |-> name, data |-> data]

\* a freshly created array: its elements and no lookup member
ArrayObject(items) ==
    [items |-> items, byName |-> Undefined, byId |-> Undefined, byTag |-> Undefined]

\* as find, but the scan runs from the end, so that the last match wins
RECURSIVE FindLastFrom(_, _, _, _)
FindLastFrom(arr, key, value, k) ==
    IF k < 1 THEN Undefined
    ELSE IF arr[k][key] = value THEN arr[k]
    ELSE FindLastFrom(arr, key, value, k - 1)

find_Last(arr, key, value) == FindLastFrom(arr, key, value, Len(arr))

\* Array.prototype.find with the predicate `item[key] === value`: the first
\* element in index order that satisfies it, undefined when none does
RECURSIVE FindFrom(_, _, _, _)
FindFrom(arr, key, value, k) ==
    IF k > Len(arr) THEN Undefined
    ELSE IF arr[k][key] = value THEN arr[k]
    ELSE FindFrom(arr, key, value, k + 1)

find(arr, key, value) == FindFrom(arr, key, value, 1)

\* Array.prototype.some with the predicate `t === tag`
RECURSIVE SomeFrom(_, _, _)
SomeFrom(tags, tag, k) ==
    IF k > Len(tags) THEN FALSE
    ELSE IF tags[k] = tag THEN TRUE
    ELSE SomeFrom(tags, tag, k + 1)

some(tags, tag) == SomeFrom(tags, tag, 1)

\* as filter, but the scan stops at the first element it keeps
RECURSIVE FilterFirstFrom(_, _, _)
FilterFirstFrom(arr, tag, k) ==
    IF k > Len(arr) THEN <<>>
    ELSE IF some(arr[k].tags, tag) THEN <<arr[k]>>
    ELSE FilterFirstFrom(arr, tag, k + 1)

filter_First(arr, tag) == FilterFirstFrom(arr, tag, 1)

\* Array.prototype.filter with the predicate `item.tags.some(t => t === tag)`:
\* the elements that satisfy it, appended in index order
RECURSIVE FilterFrom(_, _, _, _)
FilterFrom(arr, tag, k, kept) ==
    IF k > Len(arr) THEN kept
    ELSE FilterFrom(arr, tag, k + 1,
             IF some(arr[k].tags, tag) THEN Append(kept, arr[k]) ELSE kept)

filter(arr, tag) == FilterFrom(arr, tag, 1, <<>>)

\* the three closures, run on heap h for the array `data` they hold: the heap
\* afterwards and the value returned
byName(h, data, name) ==
    [heap |-> h, ret |-> find(h[data].items, "name", name)]

byId(h, data, id) ==
    [heap |-> h, ret |-> find(h[data].items, "id", id)]

\* as byTag, but the array is filtered in place and returned
byTag_InPlace(h, data, tag) ==
    [heap |-> [h EXCEPT ![data].items = filter(h[data].items, tag)],
     ret |-> ArrayRef(data)]

\* as byTag, but the array returned carries the three lookups
byTag_Enriched(h, data, tag) ==
    LET derived == Len(h) + 1 IN
    [heap |-> Append(h, [items |-> filter(h[data].items, tag),
                         byName |-> Closure("byName", derived),
                         byId |-> Closure("byId", derived),
                         byTag |-> Closure("byTag", derived)]),
     ret |-> ArrayRef(derived)]

\* filter returns a new array, which has none of the three members
byTag(h, data, tag) ==
    [heap |-> Append(h, ArrayObject(filter(h[data].items, tag))),
     ret |-> ArrayRef(Len(h) + 1)]

\* as enrichCollectionWithByMethods, but the lookups close over a copy of the
\* array taken at enrichment
enrichCollectionWithByMethods_Snapshot(h, data) ==
    LET copy == Len(h) + 1 IN
    [heap |-> Append([h EXCEPT ![data].byName = Closure("byName", copy),
                               ![data].byId = Closure("byId", copy),
                               ![data].byTag = Closure("byTag", copy)],
                     ArrayObject(h[data].items)),
     ret |-> ArrayRef(data)]

\* as enrichCollectionWithByMethods, but a copy of the array is decorated and
\* returned
enrichCollectionWithByMethods_Copy(h, data) ==
    LET copy == Len(h) + 1 IN
    [heap |-> Append(h, [items |-> h[data].items,
                         byName |-> Closure("byName", copy),
                         byId |-> Closure("byId", copy),
                         byTag |-> Closure("byTag", copy)]),
     ret |-> ArrayRef(copy)]

enrichCollectionWithByMethods(h, data) ==
    [heap |-> [h EXCEPT ![data].byName = Closure("byName", data),
                        ![data].byId = Closure("byId", data),
                        ![data].byTag = Closure("byTag", data)],
     ret |-> ArrayRef(data)]

\* the call `this.member(arg)` on heap h: a TypeError when the member is not a
\* function, else the closure's result
CallMember(h, this, member, arg) ==
    LET f == h[this][member] IN
    IF f.t /= "function" THEN [heap |-> h, ret |-> Throw("TypeError")]
    ELSE LET r == CASE f.v = "byName" -> byName(h, f.data, arg)
                    [] f.v = "byId" -> byId(h, f.data, arg)
                    [] f.v = "byTag" -> byTag(h, f.data, arg)
         IN  [heap |-> r.heap, ret |-> Return(r.ret)]

-----------------------------------------------------------------------------
(* blackstarFetch and the operations built on it.  A call returns what it  *)
(* throws or the promise it returns, the fetch it issued if any, the       *)
(* document afterwards, and the callbacks chained on the promise.          *)

HTTP_UNAUTHORIZED == 401

NoDocument == [t |-> "undefined"]
NoFetch == [t |-> "undefined"]

BEARER == <<"B", "e", "a", "r", "e", "r", " ">>

\* encodeURIComponent on the characters of the model's strings
EncodeChar(c) ==
    CASE c = "/" -> <<"%", "2", "F">>
      [] c = ":" -> <<"%", "3", "A">>
      [] c = "?" -> <<"%", "3", "F">>
      [] c = " " -> <<"%", "2", "0">>
      [] OTHER -> <<c>>

RECURSIVE encodeURIComponent(_)
encodeURIComponent(str) ==
    IF Len(str) = 0 THEN <<>>
    ELSE EncodeChar(Head(str)) \o encodeURIComponent(Tail(str))

\* docCookies.setItem('t', sValue): the assignment to document.cookie is a
\* ReferenceError where there is no document
setItem(doc, sValue) ==
    IF doc = NoDocument THEN Throw("ReferenceError")
    ELSE Return([cookie |-> <<"t", "=">> \o encodeURIComponent(sValue)])

blackstarFetch(this, doc, url, options) ==
    LET token == this.options.token
        tokenSupplied == Truthy(token) /\ Len(token.v) > 0
        opts == IF Truthy(options) THEN options ELSE [t |-> "object"]
        headers == IF Truthy(Prop(opts, "headers")) THEN opts.headers
                   ELSE [t |-> "object"]
        cookie == IF tokenSupplied THEN setItem(doc, token.v) ELSE Return(doc)
    IN  IF cookie.t = "throw"
        THEN [outcome |-> cookie, fetch |-> NoFetch, document |-> doc, then |-> <<>>]
        ELSE [outcome |-> Return("promise"),
              fetch |-> [url |-> url,
                         method |-> Prop(opts, "method"),
                         body |-> Prop(opts, "body"),
                         headers |-> IF tokenSupplied
                                     THEN [Authorization |-> BEARER \o token.v] @@ headers
                                     ELSE headers,
                         credentials |-> IF Truthy(Prop(opts, "credentials"))
                                         THEN opts.credentials ELSE "include"],
              document |-> cookie.v,
              then |-> <<"onResponse">>]

\* the callback blackstarFetch chains on fetch: the callbacks it invokes and
\* the value it returns
onResponse_NotOk(this, response) ==
    [invoked |-> IF response.status /= 200
                 THEN <<[fn |-> this.options.authCallback, arg |-> response]>>
                 ELSE <<>>,
     ret |-> response]

onResponse(this, response) ==
    [invoked |-> IF response.status = HTTP_UNAUTHORIZED
                 THEN <<[fn |-> this.options.authCallback, arg |-> response]>>
                 ELSE <<>>,
     ret |-> response]

\* a call of blackstarFetch with callbacks chained on the promise it returns
Chained(call, callbacks) ==
    IF call.outcome.t = "throw" THEN call
    ELSE [call EXCEPT !.then = call.then \o callbacks]

\* as getAll, but the decoded array is returned as it is
getAll_Raw(this, doc) ==
    Chained(blackstarFetch(this, doc, SubSeq(this.apiUrl, 1, Len(this.apiUrl) - 1),
                           Undefined),
            <<"json">>)

getAll(this, doc) ==
    Chained(blackstarFetch(this, doc, SubSeq(this.apiUrl, 1, Len(this.apiUrl) - 1),
                           Undefined),
            <<"json", "enrich">>)

\* as get, but the url is built inside the promise chain: an invalid request
\* gives a rejected promise
get_Deferred(this, doc, request) ==
    LET url == requestToUrl(this, request) IN
    IF url.t = "throw"
    THEN [outcome |-> Return("rejected"), fetch |-> NoFetch, document |-> doc,
          then |-> <<>>]
    ELSE Chained(blackstarFetch(this, doc, url.v, Undefined), <<"json", "enrich">>)

get(this, doc, request) ==
    LET url == requestToUrl(this, request) IN
    IF url.t = "throw"
    THEN [outcome |-> url, fetch |-> NoFetch, document |-> doc, then |-> <<>>]
    ELSE Chained(blackstarFetch(this, doc, url.v, Undefined), <<"json", "enrich">>)

\* JSON.stringify(data), kept as the value it serializes
Stringify(data) == [t |-> "json", v |-> data]

post(this, doc, url, data) ==
    blackstarFetch(this, doc, url,
                   [t |-> "object", method |-> "POST", body |-> Stringify(data),
                    headers |-> [t |-> "object", ContentType |-> "application/json"]])

update(this, doc, chunk) ==
    post(this, doc, this.apiUrl \o ElemToString(chunk.id), chunk)

\* apiUrl.replace(/\/$/g, ''): without its last character when that is '/'
create(this, doc, chunk) ==
    post(this, doc,
         IF Len(this.apiUrl) > 0 /\ this.apiUrl[Len(this.apiUrl)] = "/"
         THEN SubSeq(this.apiUrl, 1, Len(this.apiUrl) - 1) ELSE this.apiUrl,
         chunk)

delete(this, doc, id) ==
    blackstarFetch(this, doc, this.apiUrl \o ElemToString(id),
                   [t |-> "object", method |-> "DELETE",
                    headers |-> [t |-> "object", ContentType |-> "application/json"]])

-----------------------------------------------------------------------------
(* The inputs.                                                             *)

HTTP_H == <<"h", "t", "t", "p", ":", "/", "/", "h">>

\* server urls given to the constructor: without and with a trailing '/', and
\* a lone '/'
ServerUrls == {HTTP_H, HTTP_H \o SLASH, SLASH}

TOKEN == Str(<<"s", "3", "c">>)

OptionsGiven ==
    {NoOptions,
     [token |-> TOKEN, authCallback |-> Fn("authCallback")],
     [token |-> Str(<<>>)],
     [showEditControls |-> Bool(TRUE), token |-> Null, authCallback |-> Null]}

IdElems == {Num(29), Num(30)}
NameElems == {Str(<<"m">>), Str(<<"a", "/", "?">>)}
TagElems == {Str(<<"x">>), Str(<<"y", " ">>)}

\* the chunks a response may hold: two share a name, two share an id, one has
\* no tag, one has two tags
ChunkPool ==
    {[t |-> "object", id |-> Num(6), name |-> Str(<<"h">>),
      tags |-> <<Str(<<"p">>)>>, value |-> "H"],
     [t |-> "object", id |-> Num(7), name |-> Str(<<"h">>),
      tags |-> <<Str(<<"p">>), Str(<<"n">>)>>, value |-> "T"],
     [t |-> "object", id |-> Num(6), name |-> Str(<<"f">>),
      tags |-> <<>>, value |-> "F"],
     [t |-> "object", id |-> Num(8), name |-> Str(<<"c">>),
      tags |-> <<Str(<<"n">>)>>, value |-> "C"]}

ChunkArrays == SeqsUpTo(ChunkPool, MaxChunks)

\* the arguments of the lookups: present, absent, and of another type
LookupArgs(member) ==
    CASE member = "byId" -> {Num(6), Num(8), Num(99), Str(<<"6">>)}
      [] member = "byName" -> {Str(<<"h">>), Str(<<"c">>), Str(<<"z">>)}
      [] member = "byTag" -> {Str(<<"p">>), Str(<<"n">>), Str(<<"z">>)}

Members == {"byName", "byId", "byTag"}

\* the requests given to get: every combination of the four keys
GetRequests ==
    {i @@ n @@ t : i \in {<<>>, [ids |-> <<Num(29), Num(30)>>]},
                   n \in {<<>>, [names |-> <<Str(<<"m">>)>>]},
                   t \in {<<>>, [tags |-> <<>>]}}

\* the chunk given to create and update, the id given to delete
ChunkGiven == CHOOSE chunk \in ChunkPool : chunk.id = Num(8)

\* the status of a response: 200 OK, 401 Unauthorized, 403 Forbidden
Statuses == {200, 401, 403}

\* what response.json() gives: an array of chunks, or a rejection
Bodies == {<<>>, <<ChunkGiven>>}

RecognizedKeys == {"ids", "names", "tags"}

ValuesOf(key) ==
    CASE key = "ids" -> SeqsUpTo(IdElems, MaxLen)
      [] key = "names" -> SeqsUpTo(NameElems, MaxLen)
      [] key = "tags" -> SeqsUpTo(TagElems, MaxLen)
      [] OTHER -> {Str(<<"b", "a", "r">>)}

\* a key is absent, or present with one of its values
Entry(key) == {<<>>} \cup {key :> v : v \in ValuesOf(key)}

Requests ==
    {i @@ n @@ t @@ f : i \in Entry("ids"), n \in Entry("names"),
                        t \in Entry("tags"), f \in Entry("foo")}

-----------------------------------------------------------------------------
(* The state after the module is loaded: no client yet, nothing called.    *)

NoCall == [fn |-> "none"]

Init ==
    /\ client = NoClient
    /\ document \in {NoDocument, [cookie |-> <<>>]}
    /\ urlCall = NoCall
    /\ heap = <<>>
    /\ last = NoCall
    /\ chains = <<>>

\* a call of one of the client's operations: its outcome, and the promise
\* chain when it returned one
Called(op, arg, call) ==
    [op |-> op, arg |-> arg, outcome |-> call.outcome,
     pc |-> IF call.outcome.t = "throw" THEN "thrown"
            ELSE IF call.outcome.v = "rejected" THEN "rejected"
            ELSE "fetching",
     fetch |-> call.fetch, then |-> call.then, value |-> Undefined,
     log |-> IF call.fetch = NoFetch THEN <<>> ELSE <<[e |-> "fetch"]>>]

\* new Client(url, options)
NewClient ==
    /\ client = NoClient
    /\ \E url \in ServerUrls, options \in OptionsGiven :
           client' = Client(url, options)
    /\ UNCHANGED <<document, urlCall, heap, last, chains>>

\* Client.prototype.requestKind(request), called directly as the tests do
CallRequestKind ==
    /\ urlCall = NoCall
    /\ \E request \in Requests :
           urlCall' = [fn |-> "requestKind", request |-> request,
                       outcome |-> requestKind(request)]
    /\ UNCHANGED <<client, document, heap, last, chains>>

\* client.requestToUrl(request)
CallRequestToUrl ==
    /\ client /= NoClient
    /\ urlCall = NoCall
    /\ \E request \in Requests :
           urlCall' = [fn |-> "requestToUrl", request |-> request,
                       outcome |-> requestToUrl(client, request)]
    /\ UNCHANGED <<client, document, heap, last, chains>>

\* JSON.parse of a response body: a new array of chunks
JsonParse ==
    /\ heap = <<>>
    /\ \E items \in ChunkArrays : heap' = Append(heap, ArrayObject(items))
    /\ UNCHANGED <<client, document, urlCall, last, chains>>

\* Client.prototype.enrichCollectionWithByMethods(data), called directly
Enrich ==
    /\ \E data \in DOMAIN heap :
           LET r == enrichCollectionWithByMethods(heap, data) IN
           /\ heap' = r.heap
           /\ last' = [fn |-> "enrich", this |-> data, arg |-> Undefined,
                       outcome |-> Return(r.ret), pre |-> heap]
    /\ UNCHANGED <<client, document, urlCall, chains>>

\* data.byName(arg), data.byId(arg) or data.byTag(arg), called by the user of
\* an array; byTag needs room on the heap for its result
Lookup ==
    /\ \E this \in DOMAIN heap, member \in Members :
         \E arg \in LookupArgs(member) :
           LET r == CallMember(heap, this, member, arg) IN
           /\ Len(r.heap) <= MaxArrays
           /\ heap' = r.heap
           /\ last' = [fn |-> member, this |-> this, arg |-> arg,
                       outcome |-> r.ret, pre |-> heap]
    /\ UNCHANGED <<client, document, urlCall, chains>>

NextEnrich ==
    \/ JsonParse
    \/ Enrich
    \/ Lookup

SpecEnrich == Init /\ [][NextEnrich]_vars

\* client.get(request)
Get ==
    /\ client /= NoClient
    /\ Len(chains) < MaxCalls
    /\ \E request \in GetRequests :
           LET call == get(client, document, request) IN
           /\ chains' = Append(chains, Called("get", request, call))
           /\ document' = call.document
    /\ UNCHANGED <<client, urlCall, heap, last>>

\* client.getAll()
GetAll ==
    /\ client /= NoClient
    /\ Len(chains) < MaxCalls
    /\ LET call == getAll(client, document) IN
           /\ chains' = Append(chains, Called("getAll", Undefined, call))
           /\ document' = call.document
    /\ UNCHANGED <<client, urlCall, heap, last>>

\* client.update(chunk)
Update ==
    /\ client /= NoClient
    /\ Len(chains) < MaxCalls
    /\ LET call == update(client, document, ChunkGiven) IN
           /\ chains' = Append(chains, Called("update", ChunkGiven, call))
           /\ document' = call.document
    /\ UNCHANGED <<client, urlCall, heap, last>>

\* client.create(chunk)
Create ==
    /\ client /= NoClient
    /\ Len(chains) < MaxCalls
    /\ LET call == create(client, document, ChunkGiven) IN
           /\ chains' = Append(chains, Called("create", ChunkGiven, call))
           /\ document' = call.document
    /\ UNCHANGED <<client, urlCall, heap, last>>

\* client.delete(id)
Delete ==
    /\ client /= NoClient
    /\ Len(chains) < MaxCalls
    /\ LET call == delete(client, document, ChunkGiven.id) IN
           /\ chains' = Append(chains, Called("delete", ChunkGiven.id, call))
           /\ document' = call.document
    /\ UNCHANGED <<client, urlCall, heap, last>>

\* fetch resolves with a response
FetchResolve ==
    /\ \E c \in DOMAIN chains, status \in Statuses :
           /\ chains[c].pc = "fetching"
           /\ chains' = [chains EXCEPT
                  ![c].pc = "settling",
                  ![c].value = [t |-> "response", status |-> status],
                  ![c].log = Append(@, [e |-> "response",
                                        value |-> [t |-> "response", status |-> status]])]
    /\ UNCHANGED <<client, document, urlCall, heap, last>>

\* fetch rejects (a network error): no callback of the chain runs
FetchReject ==
    /\ \E c \in DOMAIN chains :
           /\ chains[c].pc = "fetching"
           /\ chains' = [chains EXCEPT ![c].pc = "rejected"]
    /\ UNCHANGED <<client, document, urlCall, heap, last>>

\* the callback of blackstarFetch runs on the response
ThenOnResponse ==
    /\ \E c \in DOMAIN chains :
           /\ chains[c].pc = "settling"
           /\ chains[c].then /= <<>>
           /\ Head(chains[c].then) = "onResponse"
           /\ LET r == onResponse(client, chains[c].value) IN
              chains' = [chains EXCEPT
                  ![c].then = Tail(@),
                  ![c].value = r.ret,
                  ![c].log = @ \o [i \in 1..Len(r.invoked) |->
                                      [e |-> "authCallback", fn |-> r.invoked[i].fn,
                                       arg |-> r.invoked[i].arg]]
                               \o <<[e |-> "onResponse", ret |-> r.ret]>>]
    /\ UNCHANGED <<client, document, urlCall, heap, last>>

\* function (response) { return response.json(); }: the body is decoded into
\* a new array
ThenJson ==
    /\ Len(heap) < MaxArrays
    /\ \E c \in DOMAIN chains, body \in Bodies :
           /\ chains[c].pc = "settling"
           /\ chains[c].then /= <<>>
           /\ Head(chains[c].then) = "json"
           /\ heap' = Append(heap, ArrayObject(body))
           /\ chains' = [chains EXCEPT
                  ![c].then = Tail(@),
                  ![c].value = ArrayRef(Len(heap) + 1),
                  ![c].log = Append(@, [e |-> "json", ret |-> ArrayRef(Len(heap) + 1)])]
    /\ UNCHANGED <<client, document, urlCall, last>>

\* response.json() rejects: the body is no JSON
ThenJsonReject ==
    /\ \E c \in DOMAIN chains :
           /\ chains[c].pc = "settling"
           /\ chains[c].then /= <<>>
           /\ Head(chains[c].then) = "json"
           /\ chains' = [chains EXCEPT ![c].pc = "rejected"]
    /\ UNCHANGED <<client, document, urlCall, heap, last>>

\* .then(this.enrichCollectionWithByMethods)
ThenEnrich ==
    /\ \E c \in DOMAIN chains :
           /\ chains[c].pc = "settling"
           /\ chains[c].then /= <<>>
           /\ Head(chains[c].then) = "enrich"
           /\ LET r == enrichCollectionWithByMethods(heap, chains[c].value.ref) IN
              /\ heap' = r.heap
              /\ chains' = [chains EXCEPT
                     ![c].then = Tail(@),
                     ![c].value = r.ret,
                     ![c].log = Append(@, [e |-> "enrich", ret |-> r.ret])]
    /\ UNCHANGED <<client, document, urlCall, last>>

\* the promise the operation returned is fulfilled: its caller receives the
\* value, and sees the members an array has at that moment
Deliver ==
    /\ \E c \in DOMAIN chains :
           /\ chains[c].pc = "settling"
           /\ chains[c].then = <<>>
           /\ chains' = [chains EXCEPT
                  ![c].pc = "fulfilled",
                  ![c].log = Append(@,
                      [e |-> "deliver", value |-> chains[c].value,
                       seen |-> IF chains[c].value.t = "array"
                                THEN heap[chains[c].value.ref]
                                ELSE chains[c].value])]
    /\ UNCHANGED <<client, document, urlCall, heap, last>>

Next ==
    \/ NewClient
    \/ Get
    \/ GetAll
    \/ Update
    \/ Create
    \/ Delete
    \/ FetchResolve
    \/ FetchReject
    \/ ThenOnResponse
    \/ ThenJson
    \/ ThenJsonReject
    \/ ThenEnrich
    \/ Deliver

Spec == Init /\ [][Next]_vars

\* client.requestToUrl(request), called after the client's operations have
\* run to their end
CallRequestToUrlLater ==
    /\ client /= NoClient
    /\ urlCall = NoCall
    /\ Len(chains) = MaxCalls
    /\ \A c \in DOMAIN chains : chains[c].pc \in {"thrown", "rejected", "fulfilled"}
    /\ \E request \in GetRequests :
           urlCall' = [fn |-> "requestToUrl", request |-> request,
                       outcome |-> requestToUrl(client, request)]
    /\ UNCHANGED <<client, document, heap, last, chains>>

NextPure ==
    \/ Next
    \/ CallRequestToUrlLater

SpecPure == Init /\ [][NextPure]_vars

NextUrl ==
    \/ NewClient
    \/ CallRequestKind
    \/ CallRequestToUrl

SpecUrl == Init /\ [][NextUrl]_vars

-----------------------------------------------------------------------------
(* Properties of requestKind and requestToUrl, checked under SpecUrl.      *)

Present(request) == DOMAIN request \cap RecognizedKeys

\* C1: requestKind returns 'ids', 'names' or 'tags' exactly when that key is
\* the only recognized key of the request, and throws when none, two or all
\* three are present; the outcome is a function of the set of recognized keys
\* present alone, whatever the other keys and whatever the values.
C1_RequestKindByPresence ==
    urlCall.fn = "requestKind" =>
        LET P == Present(urlCall.request) IN
        /\ \A kind \in RecognizedKeys :
               (urlCall.outcome = Return(kind)) <=> (P = {kind})
        /\ (urlCall.outcome.t = "throw") <=> (Cardinality(P) /= 1)
        /\ urlCall.outcome.t \in {"return", "throw"}

\* C1 witness: { ids: [], foo: 'bar' } was classified as 'ids'
C1_Witness ==
    /\ urlCall.fn = "requestKind"
    /\ DOMAIN urlCall.request = {"ids", "foo"}
    /\ urlCall.request["ids"] = <<>>
    /\ urlCall.outcome = Return("ids")

\* the characters of a kind, and the decimal reading of a digit string
KindChars(kind) ==
    CASE kind = "ids" -> <<"i", "d", "s">>
      [] kind = "names" -> <<"n", "a", "m", "e", "s">>
      [] kind = "tags" -> <<"t", "a", "g", "s">>

ModeSegment(kind) == <<"b", "y">> \o KindChars(kind) \o <<"/">>

DigitValue(c) ==
    CASE c = "0" -> 0 [] c = "1" -> 1 [] c = "2" -> 2 [] c = "3" -> 3 [] c = "4" -> 4
      [] c = "5" -> 5 [] c = "6" -> 6 [] c = "7" -> 7 [] c = "8" -> 8 [] c = "9" -> 9
      [] OTHER -> -1

RECURSIVE DecValue(_)
DecValue(s) ==
    IF Len(s) = 0 THEN 0
    ELSE 10 * DecValue(SubSeq(s, 1, Len(s) - 1)) + DigitValue(s[Len(s)])

\* s is the decimal string of the natural number n
IsDecimalOf(s, n) ==
    /\ Len(s) >= 1
    /\ \A i \in 1..Len(s) : DigitValue(s[i]) >= 0
    /\ Len(s) > 1 => s[1] /= "0"
    /\ DecValue(s) = n

\* s is the path segment of array element e
IsSegmentOf(s, e) == IF e.t = "number" THEN IsDecimalOf(s, e.v) ELSE s = e.v

RECURSIVE Pow10(_)
Pow10(k) == IF k = 0 THEN 1 ELSE 10 * Pow10(k - 1)

SegmentLen(e) ==
    IF e.t = "number"
    THEN CHOOSE k \in 1..(e.v + 1) : e.v < Pow10(k) /\ (k = 1 \/ e.v >= Pow10(k - 1))
    ELSE Len(e.v)

\* where segment i starts in the joined text: after the i-1 segments before it
\* and their separators
RECURSIVE SegmentOffset(_, _)
SegmentOffset(arr, i) ==
    IF i = 1 THEN 0 ELSE SegmentOffset(arr, i - 1) + SegmentLen(arr[i - 1]) + 1

JoinedLen(arr) ==
    IF Len(arr) = 0 THEN 0
    ELSE SegmentOffset(arr, Len(arr)) + SegmentLen(arr[Len(arr)])

\* path is base, then the mode segment of kind, then the elements of arr as
\* segments in index order, one '/' between neighbours and nothing else
IsPathOf(path, base, kind, arr) ==
    LET mode == ModeSegment(kind)
        at == Len(base) + Len(mode)
        Seg(i) == SubSeq(path, at + SegmentOffset(arr, i) + 1,
                         at + SegmentOffset(arr, i) + SegmentLen(arr[i]))
    IN  /\ Len(path) = at + JoinedLen(arr)
        /\ SubSeq(path, 1, Len(base)) = base
        /\ SubSeq(path, Len(base) + 1, at) = mode
        /\ \A i \in 1..Len(arr) : IsSegmentOf(Seg(i), arr[i])
        /\ \A i \in 1..(Len(arr) - 1) :
               path[at + SegmentOffset(arr, i) + SegmentLen(arr[i]) + 1] = "/"

\* C2: for a request with exactly one recognized key, requestToUrl returns the
\* API base url, then 'byids/', 'bynames/' or 'bytags/', then the elements of
\* that key's array joined with '/' in their original order, every element
\* kept (no sorting, no de-duplication) and written as it is (no escaping).
C2_RequestToUrlPath ==
    (urlCall.fn = "requestToUrl" /\ Cardinality(Present(urlCall.request)) = 1) =>
        LET kind == CHOOSE k \in RecognizedKeys : k \in DOMAIN urlCall.request IN
        /\ urlCall.outcome.t = "return"
        /\ IsPathOf(urlCall.outcome.v, client.apiUrl, kind, urlCall.request[kind])

\* 'http://h/api/content/byids/29/30'
C2_ExamplePath ==
    <<"h", "t", "t", "p", ":", "/", "/", "h", "/", "a", "p", "i", "/",
      "c", "o", "n", "t", "e", "n", "t", "/", "b", "y", "i", "d", "s", "/",
      "2", "9", "/", "3", "0">>

\* C2 witness: with base 'http://h/api/content/', { ids: [29, 30] } gave the
\* example path
C2_Witness ==
    /\ urlCall.fn = "requestToUrl"
    /\ urlCall.request = [ids |-> <<Num(29), Num(30)>>]
    /\ client.apiUrl = SubSeq(C2_ExamplePath, 1, 21)
    /\ urlCall.outcome = Return(C2_ExamplePath)

HasEmptyArrayOnly(request) ==
    /\ Cardinality(Present(request)) = 1
    /\ \A k \in Present(request) : request[k] = <<>>

\* C3: for a request whose single recognized key holds an empty array,
\* requestKind returns that kind and requestToUrl returns exactly the API base
\* url followed by the mode segment: the path ends with the '/' of 'byids/'
\* ('bynames/', 'bytags/') and has no further segment.
C3_EmptyArrayPath ==
    (urlCall.fn /= "none" /\ HasEmptyArrayOnly(urlCall.request)) =>
        LET kind == CHOOSE k \in RecognizedKeys : k \in DOMAIN urlCall.request IN
        IF urlCall.fn = "requestKind"
        THEN urlCall.outcome = Return(kind)
        ELSE urlCall.outcome = Return(client.apiUrl \o ModeSegment(kind))

\* C3 witness: with base 'http://h/api/content/', { ids: [] } gave
\* 'http://h/api/content/byids/'
C3_Witness ==
    /\ urlCall.fn = "requestToUrl"
    /\ urlCall.request = [ids |-> <<>>]
    /\ urlCall.outcome = Return(SubSeq(C2_ExamplePath, 1, 27))

-----------------------------------------------------------------------------
(* Properties of the enriched collection, checked under SpecEnrich.        *)

Enriched(h, ref) == \A member \in Members : h[ref][member].t = "function"

IsLookup(member) == last.fn = member /\ Enriched(last.pre, last.this)

\* the indexes of the chunks of array `ref` whose field `key` is `value`
Matches(h, ref, key, value) ==
    {i \in 1..Len(h[ref].items) : h[ref].items[i][key] = value}

FirstMatch(h, ref, key, value) ==
    LET hits == Matches(h, ref, key, value) IN
    IF hits = {} THEN Undefined
    ELSE h[ref].items[CHOOSE i \in hits : \A j \in hits : i <= j]

\* C5: on an enriched array, byId returns the first chunk in sequence order
\* whose id equals the argument and byName the first chunk whose name equals
\* it; when no chunk matches, the call returns undefined (absence: no array,
\* no exception).
C5_FirstMatchOrAbsent ==
    /\ IsLookup("byId") =>
          last.outcome = Return(FirstMatch(last.pre, last.this, "id", last.arg))
    /\ IsLookup("byName") =>
          last.outcome = Return(FirstMatch(last.pre, last.this, "name", last.arg))

\* C5 witness: byName matched two chunks and returned the first of them
C5_Witness ==
    /\ IsLookup("byName")
    /\ Cardinality(Matches(last.pre, last.this, "name", last.arg)) = 2
    /\ last.outcome = Return(last.pre[last.this].items[1])
    /\ last.pre[last.this].items[1] /= last.pre[last.this].items[2]

HasTag(chunk, tag) == \E k \in 1..Len(chunk.tags) : chunk.tags[k] = tag

\* the chunks of items that carry the tag, in their order
Tagged(items, tag) ==
    LET Carries(chunk) == HasTag(chunk, tag) IN SelectSeq(items, Carries)

\* C6: on an enriched array, byTag returns an array of all the chunks whose
\* tags contain the argument, in their original relative order; it does not
\* throw, and its result is an array (empty when no chunk matches), never
\* undefined.
C6_ByTagAllInOrder ==
    IsLookup("byTag") =>
        /\ last.outcome.t = "return"
        /\ last.outcome.v.t = "array"
        /\ last.outcome.v.ref \in DOMAIN heap
        /\ heap[last.outcome.v.ref].items
               = Tagged(last.pre[last.this].items, last.arg)

\* C6 witness: byTag returned both chunks of an array of two different chunks
\* that carry the tag
C6_Witness ==
    /\ IsLookup("byTag")
    /\ last.outcome.t = "return"
    /\ Len(heap[last.outcome.v.ref].items) = 2
    /\ last.pre[last.this].items[1] /= last.pre[last.this].items[2]
    /\ last.outcome.v.ref /= last.this

\* C6 witness of the empty result: no chunk carries the tag and byTag
\* returned an empty array
C6_WitnessEmpty ==
    /\ IsLookup("byTag")
    /\ last.outcome.t = "return"
    /\ Len(last.pre[last.this].items) > 0
    /\ heap[last.outcome.v.ref].items = <<>>

\* the result of this.member(arg) on heap h, read through the heap: an array
\* result is its elements
Answer(h, this, member, arg) ==
    LET r == CallMember(h, this, member, arg) IN
    IF r.ret.t = "return" /\ r.ret.v.t = "array"
    THEN <<"array", r.heap[r.ret.v.ref].items>>
    ELSE <<"value", r.ret>>

\* C7: enrichCollectionWithByMethods returns the array instance it was given,
\* on an empty array too, and enriching an array that is already enriched
\* changes the answer of no lookup: byId, byName and byTag answer every
\* argument after the second enrichment as they did after the first.
C7_SameInstanceIdempotent ==
    last.fn = "enrich" =>
        /\ last.outcome = Return(ArrayRef(last.this))
        /\ Len(heap) = Len(last.pre)
        /\ Enriched(heap, last.this)
        /\ Enriched(last.pre, last.this) =>
              \A member \in Members : \A arg \in LookupArgs(member) :
                  Answer(heap, last.this, member, arg)
                      = Answer(last.pre, last.this, member, arg)

\* C7 witness: an enriched array of two chunks was enriched again
C7_Witness ==
    /\ last.fn = "enrich"
    /\ Enriched(last.pre, last.this)
    /\ Len(heap[last.this].items) = 2
    /\ last.outcome = Return(ArrayRef(last.this))

\* C7 witness of the empty array: enrichment of an empty array returned it
C7_WitnessEmpty ==
    /\ last.fn = "enrich"
    /\ heap[last.this].items = <<>>
    /\ ~Enriched(last.pre, last.this)
    /\ Enriched(heap, last.this)

\* C8: enrichment and every lookup leave the chunk data as it was: every
\* array that existed before the call has the same length and the same chunks
\* (same id, name, tags and value) in the same order after it, and an
\* enrichment changes nothing but the three lookup members of its array.
C8_ChunkDataUnchanged ==
    last.fn \in Members \cup {"enrich"} =>
        /\ \A ref \in DOMAIN last.pre :
              /\ ref \in DOMAIN heap
              /\ heap[ref].items = last.pre[ref].items
        /\ last.fn = "enrich" =>
              /\ DOMAIN heap = DOMAIN last.pre
              /\ \A ref \in DOMAIN heap : ref /= last.this => heap[ref] = last.pre[ref]
              /\ DOMAIN heap[last.this] = {"items"} \cup Members

\* C8 witness: byTag kept one chunk of two, and the array it was called on
\* still holds both
C8_Witness ==
    /\ IsLookup("byTag")
    /\ last.outcome.t = "return"
    /\ Len(heap[last.outcome.v.ref].items) = 1
    /\ Len(heap[last.this].items) = 2
    /\ heap[last.this].items = last.pre[last.this].items

-----------------------------------------------------------------------------
(* Properties of the client's operations, checked under Spec.              *)

\* the places of the events of one kind in a chain's log
Places(chain, kind) == {i \in 1..Len(chain.log) : chain.log[i].e = kind}

Event(chain, kind) == chain.log[CHOOSE i \in Places(chain, kind) : TRUE]

InvalidRequest(request) == Cardinality(Present(request)) /= 1

\* C4: get called with a request that has none, two or all three of ids, names,
\* tags throws the classification error to its caller: it returns no promise
\* (neither pending nor rejected), and fetch is not called for that request,
\* then or later.
C4_InvalidGetThrowsBeforeFetch ==
    \A c \in DOMAIN chains :
        (chains[c].op = "get" /\ InvalidRequest(chains[c].arg)) =>
            /\ chains[c].outcome = Throw(ERR_EXACTLY_ONE)
            /\ chains[c].pc = "thrown"
            /\ chains[c].fetch = NoFetch
            /\ Places(chains[c], "fetch") = {}

\* C4 witness: get({ ids: [29, 30], tags: [] }) threw on a client that has a
\* token and a document, and nothing was fetched
C4_Witness ==
    \E c \in DOMAIN chains :
        /\ chains[c].op = "get"
        /\ DOMAIN chains[c].arg = {"ids", "tags"}
        /\ chains[c].pc = "thrown"
        /\ chains[c].log = <<>>
        /\ client.options.token = TOKEN
        /\ document /= NoDocument

Listing == {"get", "getAll"}

\* C9: a get or getAll whose promise is fulfilled has decoded the response
\* once and enriched the decoded array once, after the decoding and before the
\* delivery, and its caller receives that array with the three lookups on it;
\* no chain enriches more than once; create, update and delete fetch a fixed
\* path and their caller receives the response itself, not decoded and not
\* enriched.
C9_EnrichedOncePerResponse ==
    \A c \in DOMAIN chains :
        LET chain == chains[c] IN
        /\ Cardinality(Places(chain, "enrich")) <= 1
        /\ Places(chain, "enrich") /= {} => chain.op \in Listing
        /\ (chain.op \in Listing /\ chain.pc = "fulfilled") =>
              /\ Cardinality(Places(chain, "json")) = 1
              /\ Cardinality(Places(chain, "enrich")) = 1
              /\ \A r \in Places(chain, "response"), j \in Places(chain, "json"),
                    n \in Places(chain, "enrich"), d \in Places(chain, "deliver") :
                     r < j /\ j < n /\ n < d
              /\ Event(chain, "enrich").ret = Event(chain, "json").ret
              /\ Event(chain, "deliver").value = Event(chain, "json").ret
              /\ \A member \in Members :
                     Event(chain, "deliver").seen[member].t = "function"
        /\ (chain.op \notin Listing /\ chain.pc = "fulfilled") =>
              /\ Places(chain, "json") = {}
              /\ Event(chain, "deliver").value = Event(chain, "response").value
              /\ chain.fetch.url =
                     IF chain.op = "create"
                     THEN client.serverUrl
                              \o <<"a", "p", "i", "/", "c", "o", "n", "t", "e", "n", "t">>
                     ELSE client.apiUrl \o <<"8">>

\* C9 witness: a get was fulfilled with an array of one chunk that has the
\* three lookups
C9_Witness ==
    \E c \in DOMAIN chains :
        /\ chains[c].op = "get"
        /\ chains[c].pc = "fulfilled"
        /\ chains[c].value.t = "array"
        /\ Len(heap[chains[c].value.ref].items) = 1
        /\ Enriched(heap, chains[c].value.ref)

\* C9 witness of the other operations: a create was fulfilled with the
\* response
C9_WitnessCreate ==
    \E c \in DOMAIN chains :
        /\ chains[c].op = "create"
        /\ chains[c].pc = "fulfilled"
        /\ chains[c].value.t = "response"

\* C10: once the callback of blackstarFetch has run on a response, the auth
\* callback has been invoked once, with that response, when its status is 401,
\* and not at all for any other status; the callback returns the same
\* response, and the auth callback ran before it is passed on and before the
\* caller of the operation receives anything.  Before a response there is no
\* invocation.
C10_AuthCallbackOn401 ==
    \A c \in DOMAIN chains :
        LET chain == chains[c] IN
        /\ Places(chain, "onResponse") = {} => Places(chain, "authCallback") = {}
        /\ Places(chain, "onResponse") /= {} =>
              LET response == Event(chain, "response").value IN
              /\ Cardinality(Places(chain, "onResponse")) = 1
              /\ Cardinality(Places(chain, "authCallback")) =
                     IF response.status = 401 THEN 1 ELSE 0
              /\ \A a \in Places(chain, "authCallback") :
                     /\ chain.log[a].arg = response
                     /\ chain.log[a].fn = client.options.authCallback
                     /\ \A o \in Places(chain, "onResponse") : a < o
                     /\ \A d \in Places(chain, "deliver") : a < d
              /\ Event(chain, "onResponse").ret = response
              /\ (chain.op \notin Listing /\ chain.pc = "fulfilled") =>
                     Event(chain, "deliver").value = response

\* C10 witness: a delete got a 401, the auth callback given to the constructor
\* was invoked, and the caller received the response
C10_Witness ==
    \E c \in DOMAIN chains :
        /\ chains[c].op = "delete"
        /\ chains[c].pc = "fulfilled"
        /\ chains[c].value.status = 401
        /\ \E a \in Places(chains[c], "authCallback") :
               chains[c].log[a].fn = Fn("authCallback")

-----------------------------------------------------------------------------
(* Properties of requestToUrl among the client's operations, checked under *)
(* SpecPure.                                                               *)

\* the clients that have the API base url of this one: every server url and
\* every options object that give it
SameBase(this) ==
    {other \in {Client(url, options) : url \in ServerUrls, options \in OptionsGiven} :
         other.apiUrl = this.apiUrl}

\* C11: the outcome of requestToUrl is decided by the API base url and the
\* request alone: called after earlier requests and responses, it is the
\* outcome on every client with the same base url, whatever its token and auth
\* options; and the call changes nothing of the client, the document, the
\* arrays and the promise chains.
C11_RequestToUrlPure ==
    /\ [](urlCall.fn = "requestToUrl" =>
             \A other \in SameBase(client) :
                 requestToUrl(other, urlCall.request) = urlCall.outcome)
    /\ [][urlCall' /= urlCall =>
             /\ client' = client
             /\ document' = document
             /\ heap' = heap
             /\ chains' = chains]_vars

\* C11 witness: on a client with a token, after a get that was fulfilled on a
\* 401 response, requestToUrl returned a path
C11_Witness ==
    /\ urlCall.fn = "requestToUrl"
    /\ urlCall.outcome.t = "return"
    /\ client.options.token = TOKEN
    /\ \E other \in SameBase(client) : other.options.token /= TOKEN
    /\ \E c \in DOMAIN chains :
           /\ chains[c].op = "get"
           /\ chains[c].pc = "fulfilled"
           /\ Event(chains[c], "response").value.status = 401

----------------------------------------------------------------------------
\* The request url of get and the server url given to the constructor

\* the server url without its trailing '/'
WithoutTrailingSlash(url) ==
    IF Len(url) >= 1 /\ url[Len(url)] = "/" THEN SubSeq(url, 1, Len(url) - 1) ELSE url

\* the server urls from which the constructor builds this client
GivenUrls(this) ==
    {url \in ServerUrls : Client(url, NoOptions).serverUrl = this.serverUrl}

\* C12: whatever server url the client was constructed with, with or without a
\* trailing '/', the url fetched by get is the server url without its trailing
\* '/', then '/api/content/', then 'byids/', 'bynames/' or 'bytags/' and the
\* elements separated by '/': one '/' stands between the server url and
\* 'api/content'.
C12_GetWireFormat ==
    \A c \in DOMAIN chains :
        (chains[c].op = "get" /\ chains[c].fetch /= NoFetch) =>
            LET request == chains[c].arg
                kind == CHOOSE k \in RecognizedKeys : k \in DOMAIN request
            IN  \A url \in GivenUrls(client) :
                    IsPathOf(chains[c].fetch.url,
                             WithoutTrailingSlash(url) \o SLASH \o API_CONTENT,
                             kind, request[kind])

\* C12, the server urls that have a character before their trailing '/' or no
\* trailing '/': for these get fetches the wire format
C12_GetWireFormatBeyondRoot ==
    \A c \in DOMAIN chains :
        (chains[c].op = "get" /\ chains[c].fetch /= NoFetch) =>
            LET request == chains[c].arg
                kind == CHOOSE k \in RecognizedKeys : k \in DOMAIN request
            IN  \A url \in GivenUrls(client) \ {SLASH} :
                    IsPathOf(chains[c].fetch.url,
                             WithoutTrailingSlash(url) \o SLASH \o API_CONTENT,
                             kind, request[kind])

\* C12 case: a client constructed with '/' has fetched '//api/content/byids/29/30'
\* for get({ ids: [29, 30] })
C12_Witness ==
    \E c \in DOMAIN chains :
        /\ chains[c].op = "get"
        /\ chains[c].arg = [ids |-> <<Num(29), Num(30)>>]
        /\ SLASH \in GivenUrls(client)
        /\ chains[c].fetch /= NoFetch
        /\ chains[c].fetch.url = SLASH \o SLASH \o SubSeq(C2_ExamplePath, 10, 32)

----------------------------------------------------------------------------
\* Changes made to an enriched array by its holder, and the lookups afterwards

\* the arrays that array `data` and its lookups refer to: when the heap holds
\* no other array, nothing has been derived from `data` yet
Held(h, data) ==
    {data} \cup {h[data][member].data : member \in Members}

\* data.push(chunk) on an enriched array from which nothing has been derived
ArrayPush ==
    /\ \E data \in DOMAIN heap, chunk \in ChunkPool :
           /\ Enriched(heap, data)
           /\ DOMAIN heap = Held(heap, data)
           /\ Len(heap[data].items) < MaxChunks
           /\ heap' = [heap EXCEPT ![data].items = Append(@, chunk)]
           /\ last' = [fn |-> "push", this |-> data, arg |-> chunk,
                       outcome |-> Return(Num(Len(heap[data].items) + 1)),
                       pre |-> heap]
    /\ UNCHANGED <<client, document, urlCall, chains>>

\* data.splice(i, 1) on an enriched array: the chunk at i is removed
ArraySplice ==
    /\ \E data \in DOMAIN heap :
         \E i \in 1..Len(heap[data].items) :
           /\ Enriched(heap, data)
           /\ DOMAIN heap = Held(heap, data)
           /\ heap' = [heap EXCEPT ![data].items =
                           SubSeq(@, 1, i - 1) \o SubSeq(@, i + 1, Len(@))]
           /\ last' = [fn |-> "splice", this |-> data, arg |-> Num(i - 1),
                       outcome |-> Return(<<heap[data].items[i]>>), pre |-> heap]
    /\ UNCHANGED <<client, document, urlCall, chains>>

\* data[i] = chunk on an enriched array: the chunk at i is replaced
ArrayAssign ==
    /\ \E data \in DOMAIN heap, chunk \in ChunkPool :
         \E i \in 1..Len(heap[data].items) :
           /\ Enriched(heap, data)
           /\ DOMAIN heap = Held(heap, data)
           /\ heap[data].items[i] /= chunk
           /\ heap' = [heap EXCEPT ![data].items[i] = chunk]
           /\ last' = [fn |-> "assign", this |-> data, arg |-> chunk,
                       outcome |-> Return(chunk), pre |-> heap]
    /\ UNCHANGED <<client, document, urlCall, chains>>

NextView ==
    \/ NextEnrich
    \/ ArrayPush
    \/ ArraySplice
    \/ ArrayAssign

SpecView == Init /\ [][NextView]_vars

\* what the lookup `member` with argument `arg` answers over the chunks
\* `items`: the first match or undefined for byId and byName, the chunks that
\* carry the tag for byTag
OverContents(items, member, arg) ==
    LET h == <<ArrayObject(items)>> IN
    CASE member = "byId" -> <<"value", Return(FirstMatch(h, 1, "id", arg))>>
      [] member = "byName" -> <<"value", Return(FirstMatch(h, 1, "name", arg))>>
      [] member = "byTag" -> <<"array", Tagged(items, arg)>>

Changes == {"push", "splice", "assign"}

\* C13: the lookups are views: in every state reached by appending, removing
\* and replacing chunks of an enriched array, byId, byName and byTag called on
\* it answer over the chunks the array holds at the call, for every argument;
\* so the answers after a change are those over the changed contents.
C13_LookupsAreViews ==
    \A ref \in DOMAIN heap :
        Enriched(heap, ref) =>
            \A member \in Members : \A arg \in LookupArgs(member) :
                Answer(heap, ref, member, arg)
                    = OverContents(heap[ref].items, member, arg)

\* C13 witness: the first of two chunks with id 6 was removed from an array
\* enriched before, and byId(6), which answered the removed chunk before the
\* change, answers the remaining one
C13_Witness ==
    /\ last.fn = "splice"
    /\ Enriched(last.pre, last.this)
    /\ Len(last.pre[last.this].items) = 2
    /\ Len(heap[last.this].items) = 1
    /\ Answer(last.pre, last.this, "byId", Num(6))
           = <<"value", Return(last.pre[last.this].items[1])>>
    /\ Answer(heap, last.this, "byId", Num(6))
           = <<"value", Return(last.pre[last.this].items[2])>>
    /\ last.pre[last.this].items[1] /= last.pre[last.this].items[2]

\* C13 witness of an appended chunk: byTag answers one chunk more after push
C13_WitnessPush ==
    /\ last.fn = "push"
    /\ Enriched(last.pre, last.this)
    /\ \E arg \in LookupArgs("byTag") :
           Len(Answer(heap, last.this, "byTag", arg)[2])
               = Len(Answer(last.pre, last.this, "byTag", arg)[2]) + 1

\* C13 witness of a replaced chunk: byName answers the chunk put in place
C13_WitnessAssign ==
    /\ last.fn = "assign"
    /\ Enriched(last.pre, last.this)
    /\ \E arg \in LookupArgs("byName") :
           /\ Answer(last.pre, last.this, "byName", arg) = <<"value", Return(Undefined)>>
           /\ Answer(heap, last.this, "byName", arg) = <<"value", Return(last.arg)>>

----------------------------------------------------------------------------
\* The array returned by byTag

\* array `ref` has at least one of the three lookup members
Carries(h, ref) == \E member \in Members : h[ref][member] /= Undefined

\* C14: the array byTag returns is a new array, not the one it was called on
\* nor any that existed, and it has none of byId, byName, byTag: calling one
\* on it is a TypeError; the array byTag was called on keeps its chunks and
\* its three lookups; and an array without the lookups gets them by no step
\* but an enrichment of that array.
C14_DerivedArrayNotEnriched ==
    /\ [](IsLookup("byTag") =>
             /\ last.outcome.t = "return"
             /\ last.outcome.v.t = "array"
             /\ last.outcome.v.ref \notin DOMAIN last.pre
             /\ last.outcome.v.ref \in DOMAIN heap
             /\ ~Carries(heap, last.outcome.v.ref)
             /\ \A ref \in DOMAIN last.pre : heap[ref] = last.pre[ref])
    /\ []((last.fn \in Members /\ ~Carries(last.pre, last.this)) =>
             last.outcome = Throw("TypeError"))
    /\ [][\A ref \in DOMAIN heap :
             (~Carries(heap, ref) /\ Carries(heap', ref)) =>
                 (last'.fn = "enrich" /\ last'.this = ref /\ last'.pre = heap)]_vars

\* C14 witness: byTag on an enriched array of two chunks returned a second
\* array that holds one of them and none of the lookups, and the first array
\* is as it was, lookups included
C14_Witness ==
    /\ IsLookup("byTag")
    /\ last.outcome = Return(ArrayRef(2))
    /\ last.this = 1
    /\ Len(heap[2].items) = 1
    /\ ~Carries(heap, 2)
    /\ Len(heap[1].items) = 2
    /\ Enriched(heap, 1)
    /\ heap[1] = last.pre[1]

\* C14 witness: byId called on the array byTag returned was a TypeError
C14_WitnessTypeError ==
    /\ last.fn = "byId"
    /\ last.this = 2
    /\ Enriched(heap, 1)
    /\ ~Carries(heap, 2)
    /\ last.outcome = Throw("TypeError")

\* C14 witness: enrichment was applied to the array byTag returned, which
\* carries the lookups from then on
C14_WitnessReapplied ==
    /\ last.fn = "enrich"
    /\ last.this = 2
    /\ ~Carries(last.pre, 2)
    /\ Enriched(heap, 2)
    /\ Enriched(heap, 1)

----------------------------------------------------------------------------
\* The failures of requestToUrl, checked under SpecUrl

\* C15: for a request whose ids, names and tags, where present, hold arrays,
\* requestToUrl returns a path that starts with the API base url or throws the
\* error of requestKind, the very error requestKind throws for that request
\* ('A request must include exactly one of ... ids, names, tags'); it throws
\* exactly when requestKind does, and never its own 'Unknown request kind'
\* error.
C15_OnlyClassificationFailure ==
    urlCall.fn = "requestToUrl" =>
        LET kind == requestKind(urlCall.request) IN
        /\ urlCall.outcome.t \in {"return", "throw"}
        /\ urlCall.outcome.t = "throw" =>
              /\ urlCall.outcome = Throw(ERR_EXACTLY_ONE)
              /\ urlCall.outcome = kind
              /\ Cardinality(Present(urlCall.request)) /= 1
        /\ urlCall.outcome.t = "return" =>
              /\ kind.t = "return"
              /\ Cardinality(Present(urlCall.request)) = 1
              /\ Len(urlCall.outcome.v) >= Len(client.apiUrl)
              /\ SubSeq(urlCall.outcome.v, 1, Len(client.apiUrl)) = client.apiUrl
        /\ urlCall.outcome /= Throw(ERR_UNKNOWN_KIND)

\* C15 witness: requestToUrl of { ids: [29], names: ['m'], foo: 'bar' } threw
\* the error of requestKind
C15_Witness ==
    /\ urlCall.fn = "requestToUrl"
    /\ DOMAIN urlCall.request = {"ids", "names", "foo"}
    /\ Len(urlCall.request["ids"]) = 1
    /\ Len(urlCall.request["names"]) = 1
    /\ urlCall.outcome = Throw(ERR_EXACTLY_ONE)
    /\ ERR_EXACTLY_ONE /= ERR_UNKNOWN_KIND

\* C15 witness: requestToUrl of a request with none of the three keys threw
\* the error of requestKind
C15_WitnessNone ==
    /\ urlCall.fn = "requestToUrl"
    /\ Present(urlCall.request) = {}
    /\ urlCall.outcome = Throw(ERR_EXACTLY_ONE)

=============================================================================
